---- MODULE Spec2Model ----
(***************************************************************************)
(* The POST /map handler of the YARRRML-to-RML service (src/index.js) as a *)
(* state machine: one Job from the arrival of its request to the return of *)
(* its handler, with the asynchronous operations it starts (the fetches,   *)
(* the engine child process, the recursive removal of the workspace).      *)
(*                                                                         *)
(* Every stretch of synchronous JavaScript between two awaits is one       *)
(* action; every completion the event loop can deliver (an HTTP response,  *)
(* a timer, a child-process event, a file-system completion) is an action  *)
(* of its own, so that all interleavings the event loop allows are there.  *)
(***************************************************************************)
EXTENDS Integers, Sequences, FiniteSets, TLC

\* ------------------------------------------------------------------ bounds

\* At most this many resources in the request's list.
MaxResources == 3

\* At most this many "data" events of the child's stderr stream.
MaxData == 2

\* The retained-stderr limit. The source's limit is 200_000 characters
\* (src/index.js:103); the model keeps the same code with a limit small
\* enough for chunks to cross it.
StderrLimit == 3

\* --------------------------------------------------------------- strings
\* A string is a sequence of one-character strings.

DataJson == <<"d", "a", "t", "a", ".", "j", "s", "o", "n">>
MappingTtl == <<"m", "a", "p", "p", "i", "n", "g", ".", "t", "t", "l">>
OutputStem == <<"o", "u", "t", "p", "u", "t", ".">>

Whitespace == {" ", "\t", "\n"}

Lower == {"a", "b", "c", "d", "e", "f", "g", "h", "i", "j", "k", "l", "m",
          "n", "o", "p", "q", "r", "s", "t", "u", "v", "w", "x", "y", "z"}
Upper == {"A", "B", "C", "D", "E", "F", "G", "H", "I", "J", "K", "L", "M",
          "N", "O", "P", "Q", "R", "S", "T", "U", "V", "W", "X", "Y", "Z"}
Digit == {"0", "1", "2", "3", "4", "5", "6", "7", "8", "9"}

\* The character class [A-Za-z0-9._-] of line 71.
NameChars == Lower \cup Upper \cup Digit \cup {".", "_", "-"}

\* String.prototype.trim
RECURSIVE TrimLeft(_)
TrimLeft(s) ==
    IF s # <<>> /\ Head(s) \in Whitespace THEN TrimLeft(Tail(s)) ELSE s

RECURSIVE TrimRight(_)
TrimRight(s) ==
    IF s # <<>> /\ s[Len(s)] \in Whitespace
    THEN TrimRight(SubSeq(s, 1, Len(s) - 1))
    ELSE s

Trim(s) == TrimRight(TrimLeft(s))

\* String.prototype.includes
Includes(s, sub) ==
    \E i \in 1..(Len(s) - Len(sub) + 1) : SubSeq(s, i, i + Len(sub) - 1) = sub

\* String.prototype.split(sep) for a one-character separator.
RECURSIVE Split(_, _)
Split(s, sep) ==
    IF \E i \in 1..Len(s) : s[i] = sep
    THEN LET i == CHOOSE k \in 1..Len(s) :
                      s[k] = sep /\ \A j \in 1..(k - 1) : s[j] # sep
         IN  <<SubSeq(s, 1, i - 1)>> \o Split(SubSeq(s, i + 1, Len(s)), sep)
    ELSE <<s>>

\* String.prototype.slice(-n): the last n characters (the whole string when
\* it is shorter).
SliceLast(s, n) ==
    IF Len(s) > n THEN SubSeq(s, Len(s) - n + 1, Len(s)) ELSE s

\* --------------------------------------------------------------- helpers

\* new URL(u): a candidate either parses as an absolute URL, with a protocol
\* and a hostname, or makes the constructor throw.
ParseUrl(u) ==
    IF u.kind = "url"
    THEN [ok |-> TRUE, protocol |-> u.protocol, hostname |-> u.hostname]
    ELSE [ok |-> FALSE, protocol |-> "", hostname |-> <<>>]

isHttpUrl(u) ==
    LET url == ParseUrl(u)
    IN  IF url.ok THEN url.protocol = "http:" \/ url.protocol = "https:" ELSE FALSE

\* Lines 57-60: the list ALLOWED_FETCH_HOSTS (env; <<>> when unset) yields
\* after split(","), map(trim) and filter(Boolean).
AllowList(env) ==
    LET parts == Split(env, ",")
        trimmed == [k \in 1..Len(parts) |-> Trim(parts[k])]
        NonEmpty(e) == e # <<>>
    IN  SelectSeq(trimmed, NonEmpty)

\* A check that also accepts a host name ending with an entry.
isAllowedHostSuffix(u, env) ==
    LET allow == AllowList(env)
        h == ParseUrl(u).hostname
    IN  IF Len(allow) = 0 THEN TRUE
        ELSE \E k \in 1..Len(allow) :
                /\ Len(allow[k]) <= Len(h)
                /\ SubSeq(h, Len(h) - Len(allow[k]) + 1, Len(h)) = allow[k]

\* Line 62 runs new URL(u), which throws on text that is no absolute URL.
isAllowedHostThrows(u, env) ==
    Len(AllowList(env)) # 0 /\ ~ParseUrl(u).ok

isAllowedHost(u, env) ==
    LET allow == AllowList(env)
    IN  IF Len(allow) = 0 THEN TRUE
        ELSE \E k \in 1..Len(allow) : allow[k] = ParseUrl(u).hostname

\* A sanitizer with the character-class test alone (no test of line 70).
sanitizeFilenameClassOnly(name, fallback) ==
    IF name = <<>> THEN fallback
    ELSE LET trimmed == Trim(name)
         IN  IF trimmed = <<>> THEN fallback
             ELSE IF \E i \in 1..Len(trimmed) : trimmed[i] \notin NameChars
                  THEN fallback
             ELSE trimmed

\* Lines 66-73. The caller passes "" for a fileName that is absent or not a
\* string (line 176), and "" is falsy: <<>> stands for all of these.
sanitizeFilename(name, fallback) ==
    IF name = <<>> THEN fallback
    ELSE LET trimmed == Trim(name)
         IN  IF trimmed = <<>> THEN fallback
             ELSE IF Includes(trimmed, <<"/">>) \/ Includes(trimmed, <<"\\">>)
                     \/ Includes(trimmed, <<".", ".">>) THEN fallback
             ELSE IF \E i \in 1..Len(trimmed) : trimmed[i] \notin NameChars
                  THEN fallback
             ELSE trimmed

contentTypeFor(serialization) ==
    CASE serialization = "turtle" -> "text/turtle"
      [] serialization = "trig" -> "application/trig"
      [] serialization = "jsonld" -> "application/ld+json"
      [] OTHER -> "application/n-quads"

\* The extension of the output file (lines 188-189).
outputExt(serialization) ==
    IF serialization = "turtle" THEN <<"t", "t", "l">>
    ELSE IF serialization = "jsonld" THEN <<"j", "s", "o", "n", "l", "d">>
    ELSE <<"n", "q">>

outputName(serialization) == OutputStem \o outputExt(serialization)

\* An Error object: its message and, for the ghost bookkeeping, the fetch it
\* comes from (0: none). The engine's exit message is "RMLMapper exited with
\* code <code>\n<text>".
Err(src, msg, code, text) == [src |-> src, msg |-> msg, code |-> code, text |-> text]
NoErr == Err(0, "", 0, <<>>)

\* A settled-once promise (the ECMAScript Promise): resolve and reject act on
\* a pending promise only.
Pending == [state |-> "pending", reason |-> NoErr]

PromiseResolve(p) ==
    IF p.state = "pending" THEN [state |-> "fulfilled", reason |-> NoErr] ELSE p

PromiseReject(p, e) ==
    IF p.state = "pending" THEN [state |-> "rejected", reason |-> e] ELSE p

\* A response sent with res.status(...).json(...) or .send(...): an error
\* response carries error and message (err) or logs, the success response a
\* content type and a body.
Response(status, error, err, logs, ctype, body) ==
    [status |-> status, error |-> error, err |-> err, logs |-> logs,
     ctype |-> ctype, body |-> body]

\* The Content-Type header: a media type followed by "; charset=utf-8"
\* (line 244; res.json sends application/json the same way).
ContentType(mediaType) == <<mediaType, "; charset=utf-8">>
JsonType == ContentType("application/json")

\* ---------------------------------------------------------------- inputs

\* Host names.
Good == <<"g", "o", "o", "d">>
Other == <<"o", "t", "h", "e", "r">>

\* Candidate values of a resource's resourceUrl field: absent or blank, text
\* that is no absolute URL, and absolute URLs.
Url(protocol, hostname) == [kind |-> "url", protocol |-> protocol, hostname |-> hostname]
BlankUrl == [kind |-> "blank", protocol |-> "", hostname |-> <<>>]
TextUrl == [kind |-> "text", protocol |-> "", hostname |-> <<>>]
UrlCandidates ==
    { BlankUrl, TextUrl, Url("ftp:", Good), Url("https:", Good) }

\* Candidate values of a resource's fileName field (<<>>: absent or empty).
FileNameCandidates == { <<"a">>, <<".", ".", "/", "a">> }

ResourceCandidates ==
    [resourceUrl : UrlCandidates, fileName : FileNameCandidates]

RECURSIVE SeqsUpTo(_, _)
SeqsUpTo(S, n) ==
    IF n = 0 THEN {<<>>}
    ELSE LET shorter == SeqsUpTo(S, n - 1)
         IN  shorter \cup { Append(s, x) : s \in {t \in shorter : Len(t) = n - 1}, x \in S }

\* body.yarrml: absent, blank, or a mapping text.
YarrmlCandidates == {"absent", "blank", "text"}

\* req.query.serialization after the default and trim.
SerializationCandidates == {"nquads"}

Requests ==
    [yarrml : YarrmlCandidates,
     hasResources : BOOLEAN,
     resources : SeqsUpTo(ResourceCandidates, MaxResources),
     serialization : SerializationCandidates]

NoRequest == [yarrml |-> "absent", hasResources |-> FALSE, resources |-> <<>>,
              serialization |-> ""]

\* process.env.ALLOWED_FETCH_HOSTS: unset, or a host other than that of the
\* candidate URLs.
AllowLists == { <<>>, Other }

\* ----------------------------------------------------------------- state

VARIABLES
    allowedHosts,   \* process.env.ALLOWED_FETCH_HOSTS
    pc,             \* where the handler is (which await it is suspended at)
    req,            \* the request being handled
    normalized,     \* the validated resource list (line 160)
    responses,      \* the responses sent on res, in order
    wsCreated,      \* mkdtemp has succeeded
    wsExists,       \* the workspace directory exists
    wsFiles,        \* the files of the workspace: records [name, content]
    fstate,         \* per fetch: fetching, body, writing (the file is being
                    \* opened), opened, detached, fulfilled, rejected
    ftimer,         \* per fetch: its setTimeout timer, armed or inactive
    ferr,           \* per fetch: the error it rejected with
    allP,           \* the promise of Promise.all
    allRemaining,   \* Promise.all's count of elements not yet fulfilled
    failOrder,      \* ghost: the fetches that rejected, in the order they did
    converted,      \* what y2r.convert returned, and the logger's entries
    rmlTurtle,      \* the mapping text to write
    child,          \* the child process: none, spawned, running, closed (it ran
                    \* and exited), errored (not spawned), errorClosed
    engP,           \* the promise runRmlMapper returns
    stderr,         \* runRmlMapper's retained stderr text
    stderrAll,      \* ghost: every stderr chunk received, concatenated
    dataEvents,     \* ghost: the number of stderr data events delivered
    spawnCount,     \* ghost: the number of calls of spawn
    engArgs,        \* the arguments the child was spawned with
    exitCode,       \* ghost: the codes of the close events delivered
    rmCalls,        \* ghost: the number of calls of fs.rm
    rmListed,       \* the names fs.rm read from the directory
    rmResult,       \* none; ok: fs.rm resolved; fault, notempty: it rejected
    jobs,           \* Jobs handled side by side: per Job, where its handler is
    tmpDirs,        \* the directories under os.tmpdir()
    tmpFiles,       \* the files in them: records [dir, name, content]
    uuidCount       \* the number of UUIDs crypto.randomUUID has returned

wsVars == <<wsCreated, wsExists, wsFiles>>
fetchVars == <<fstate, ftimer, ferr, allP, allRemaining, failOrder>>
convVars == <<converted, rmlTurtle>>
engVars == <<child, engP, stderr, stderrAll, dataEvents, spawnCount, engArgs, exitCode>>
rmVars == <<rmCalls, rmListed, rmResult>>

jobsVars == <<jobs, tmpDirs, tmpFiles, uuidCount>>

\* The state of the process outside the Job in hand.
procVars == <<allowedHosts, jobsVars>>

\* The state of the Job in hand.
handlerVars == <<pc, req, normalized, responses, wsVars, fetchVars, convVars,
                 engVars, rmVars>>

vars == <<procVars, handlerVars>>

\* A file's content: what wrote it, and for a resource the fetch it is the
\* payload of.
Content(kind, src) == [kind |-> kind, src |-> src]
NoContent == Content("", 0)

NoConversion == [shape |-> "", log |-> <<>>]

NoArgs == [m |-> <<>>, o |-> <<>>, s |-> <<>>, b |-> <<>>]

\* ------------------------------------------------ Jobs side by side
\* The handler of lines 137-256 runs once per request, and its awaits let
\* the handlers of several requests interleave. Each one is followed here
\* through the calls that name a path.

\* Number of Jobs handled at the same time.
MaxJobs == 2

JobIds == 1..MaxJobs

\* No directory: workdir before line 185 has resolved.
NoDir == [uuid |-> 0, suffix |-> ""]

\* The characters fs.mkdtemp appends to its prefix, abstracted to one value:
\* mkdtemp then rejects where the real call would try another suffix.
Suffixes == {"p"}

\* path.join(os.tmpdir(), `mapjob-${jobId}-`) followed by mkdtemp's suffix.
Workdir(jobId, suffix) == [uuid |-> jobId, suffix |-> suffix]

\* The two resources every Job of this part asks for, by fileName.
JobFileNames == <<DataJson, <<"a">>>>

IdleJob == [pc |-> "idle", jobId |-> 0, workdir |-> NoDir, fst |-> <<>>,
            cwd |-> NoDir, sources |-> {}, resp |-> <<>>, body |-> <<>>,
            listed |-> {}]

InitJobs ==
    /\ jobs = [j \in JobIds |-> IdleJob]
    /\ tmpDirs = {}
    /\ tmpFiles = {}
    /\ uuidCount = 0

\* No request has arrived.
InitJob ==
    /\ pc = "idle"
    /\ req = NoRequest
    /\ normalized = <<>>
    /\ responses = <<>>
    /\ wsCreated = FALSE
    /\ wsExists = FALSE
    /\ wsFiles = {}
    /\ fstate = <<>>
    /\ ftimer = <<>>
    /\ ferr = <<>>
    /\ allP = Pending
    /\ allRemaining = 0
    /\ failOrder = <<>>
    /\ converted = NoConversion
    /\ rmlTurtle = NoContent
    /\ child = "none"
    /\ engP = Pending
    /\ stderr = <<>>
    /\ stderrAll = <<>>
    /\ dataEvents = 0
    /\ spawnCount = 0
    /\ engArgs = NoArgs
    /\ exitCode = <<>>
    /\ rmCalls = 0
    /\ rmListed = {}
    /\ rmResult = "none"
    /\ InitJobs

Init ==
    /\ allowedHosts \in AllowLists
    /\ InitJob

\* ------------------------------------------------------------ validation

\* The validation loop of lines 160-181: the first bad reference returns.
RECURSIVE ValidateFrom(_, _, _, _)
ValidateFrom(resources, i, acc, allow) ==
    IF i > Len(resources)
    THEN [ok |-> TRUE, threw |-> FALSE, normalized |-> acc, status |-> 0, error |-> ""]
    ELSE LET r == resources[i]
             resourceUrl == r.resourceUrl
         IN  IF resourceUrl.kind = "blank"
             THEN [ok |-> FALSE, threw |-> FALSE, normalized |-> <<>>, status |-> 400,
                   error |-> "Each resource must have resourceUrl"]
             ELSE IF ~isHttpUrl(resourceUrl)
             THEN [ok |-> FALSE, threw |-> FALSE, normalized |-> <<>>, status |-> 400,
                   error |-> "resourceUrl must be http(s)"]
             ELSE IF isAllowedHostThrows(resourceUrl, allow)
             THEN [ok |-> FALSE, threw |-> TRUE, normalized |-> <<>>, status |-> 0,
                   error |-> ""]
             ELSE IF ~isAllowedHost(resourceUrl, allow)
             THEN [ok |-> FALSE, threw |-> FALSE, normalized |-> <<>>, status |-> 403,
                   error |-> "resourceUrl host not allowed by ALLOWED_FETCH_HOSTS"]
             ELSE ValidateFrom(resources, i + 1,
                     Append(acc, [resourceUrl |-> resourceUrl,
                                  fileName |-> sanitizeFilename(r.fileName, DataJson)]),
                     allow)

\* A loop that checks the first reference only and takes the others as
\* they are.
ValidateFirstOnly(resources, allow) ==
    LET first == ValidateFrom(SubSeq(resources, 1, 1), 1, <<>>, allow)
    IN  IF first.ok
        THEN [ok |-> TRUE, threw |-> FALSE,
              normalized |-> [k \in 1..Len(resources) |->
                  [resourceUrl |-> resources[k].resourceUrl,
                   fileName |-> sanitizeFilename(resources[k].fileName, DataJson)]],
              status |-> 0, error |-> ""]
        ELSE first

Validate(resources, allow) == ValidateFrom(resources, 1, <<>>, allow)

\* Lines 137-185: the synchronous start of the handler, up to await mkdtemp.
\* An exception thrown there rejects the handler's promise with nothing sent.
Post(request) ==
    /\ pc = "idle"
    /\ req' = request
    /\ IF request.yarrml # "text"
       THEN /\ responses' = Append(responses,
                   Response(400, "Missing yarrml", NoErr, <<>>, JsonType, NoContent))
            /\ pc' = "done"
            /\ UNCHANGED normalized
       ELSE IF ~request.hasResources \/ Len(request.resources) = 0
       THEN /\ responses' = Append(responses,
                   Response(400, "Missing resources", NoErr, <<>>, JsonType, NoContent))
            /\ pc' = "done"
            /\ UNCHANGED normalized
       ELSE LET v == Validate(request.resources, allowedHosts)
            IN  IF v.ok
                THEN /\ normalized' = v.normalized
                     /\ pc' = "mkdtemp"
                     /\ UNCHANGED responses
                ELSE IF v.threw
                THEN /\ pc' = "rejected"
                     /\ UNCHANGED <<normalized, responses>>
                ELSE /\ responses' = Append(responses,
                            Response(v.status, v.error, NoErr, <<>>, JsonType, NoContent))
                     /\ pc' = "done"
                     /\ UNCHANGED normalized
    /\ UNCHANGED <<procVars, wsVars, fetchVars, convVars, engVars, rmVars>>

\* A request arrives at POST /map.
Receive ==
    /\ pc = "idle"
    /\ \E request \in Requests : Post(request)

\* ------------------------------------------------- catch / finally blocks

\* A handler that returns without removing the workspace.
FinallyWithoutRm ==
    /\ pc' = "done"
    /\ UNCHANGED rmVars

\* Lines 251-255: finally calls fs.rm(workdir) and awaits it.
Finally ==
    /\ pc' = "rm"
    /\ rmCalls' = rmCalls + 1
    /\ UNCHANGED <<rmListed, rmResult>>

\* A handler whose cleanup sits in the try body only: catch responds and the
\* handler returns.
CatchWithoutCleanup(err) ==
    /\ responses' = Append(responses, Response(422, "Mapping failed", err, <<>>, JsonType, NoContent))
    /\ pc' = "done"
    /\ UNCHANGED rmVars

\* Lines 246-250 followed by finally.
Catch(err) ==
    /\ responses' = Append(responses, Response(422, "Mapping failed", err, <<>>, JsonType, NoContent))
    /\ Finally

\* ------------------------------------------------------------- workspace

\* fs.writeFile: the file is created, or replaced if it exists.
WriteFile(files, name, content) ==
    {f \in files : f.name # name} \cup {[name |-> name, content |-> content]}

FileNames(files) == {f.name : f \in files}

\* Lines 184-199: mkdtemp completes. On success the handler goes on, within
\* the same turn, to call fetchJsonToFile for every resource; each call runs
\* to its await fetch(...) with its timer armed. On failure the await throws
\* outside the try block: the handler's promise rejects with nothing sent.
Mkdtemp(ok) ==
    /\ pc = "mkdtemp"
    /\ IF ok
       THEN /\ wsCreated' = TRUE
            /\ wsExists' = TRUE
            /\ wsFiles' = {}
            /\ fstate' = [i \in 1..Len(normalized) |-> "fetching"]
            /\ ftimer' = [i \in 1..Len(normalized) |-> "armed"]
            /\ ferr' = [i \in 1..Len(normalized) |-> NoErr]
            /\ allP' = Pending
            /\ allRemaining' = Len(normalized)
            /\ pc' = "fetchAll"
       ELSE /\ pc' = "rejected"
            /\ UNCHANGED <<wsVars, fstate, ftimer, ferr, allP, allRemaining>>
    /\ UNCHANGED <<procVars, req, normalized, responses, failOrder,
                   convVars, engVars, rmVars>>

\* ---------------------------------------------------------------- fetches

\* A finally block that leaves the timer as it is.
ClearTimeoutNot(t) == t

\* clearTimeout(t) of line 87: an armed timer is disarmed; a timer that has
\* fired is inactive already.
ClearTimeout(t) == "inactive"

\* A combinator whose reason is that of the latest rejection.
AllElementRejectedLast(p, e) ==
    IF p.state = "fulfilled" THEN p ELSE [state |-> "rejected", reason |-> e]

\* A combinator that is fulfilled by the first element fulfilled.
AllElementFulfilledFirst(p, remaining) == PromiseResolve(p)

\* Promise.all (line 195): the first rejection of an element rejects the
\* promise; it is fulfilled when every element is.
AllElementRejected(p, e) == PromiseReject(p, e)

AllElementFulfilled(p, remaining) ==
    IF remaining = 0 THEN PromiseResolve(p) ELSE p

\* fetchJsonToFile(i) throws e: its finally clears the timer, its promise
\* rejects and Promise.all sees the rejection.
FetchReject(i, e, timer) ==
    /\ fstate' = [fstate EXCEPT ![i] = "rejected"]
    /\ ferr' = [ferr EXCEPT ![i] = e]
    /\ ftimer' = [ftimer EXCEPT ![i] = timer]
    /\ allP' = AllElementRejected(allP, e)
    /\ failOrder' = Append(failOrder, i)
    /\ UNCHANGED allRemaining

\* fetchJsonToFile(i) returns.
FetchFulfil(i) ==
    /\ fstate' = [fstate EXCEPT ![i] = "fulfilled"]
    /\ ftimer' = [ftimer EXCEPT ![i] = ClearTimeout(@)]
    /\ allRemaining' = allRemaining - 1
    /\ allP' = AllElementFulfilled(allP, allRemaining - 1)
    /\ UNCHANGED <<ferr, failOrder>>

FetchStatuses == {200, 500}

\* Lines 80-81: the response headers arrive.
FetchResponse(i, status) ==
    /\ i \in DOMAIN fstate
    /\ fstate[i] = "fetching"
    /\ IF status \in 200..299
       THEN /\ fstate' = [fstate EXCEPT ![i] = "body"]
            /\ UNCHANGED <<ftimer, ferr, allP, allRemaining, failOrder>>
       ELSE FetchReject(i, Err(i, "Fetch failed: HTTP", status, <<>>),
                        ClearTimeout(ftimer[i]))
    /\ UNCHANGED <<procVars, pc, req, normalized, responses, wsVars,
                   convVars, engVars, rmVars>>

\* Line 80: fetch rejects (no connection, DNS failure, ...).
FetchNetworkError(i) ==
    /\ i \in DOMAIN fstate
    /\ fstate[i] = "fetching"
    /\ FetchReject(i, Err(i, "fetch failed", 0, <<>>), ClearTimeout(ftimer[i]))
    /\ UNCHANGED <<procVars, pc, req, normalized, responses, wsVars,
                   convVars, engVars, rmVars>>

\* Lines 84-85: the body has been read; resp.json() parses it, and on
\* success fs.writeFile is started.
FetchBody(i, isJson) ==
    /\ i \in DOMAIN fstate
    /\ fstate[i] = "body"
    /\ IF isJson
       THEN /\ fstate' = [fstate EXCEPT ![i] = "writing"]
            /\ UNCHANGED <<ftimer, ferr, allP, allRemaining, failOrder>>
       ELSE FetchReject(i, Err(i, "SyntaxError", 0, <<>>), ClearTimeout(ftimer[i]))
    /\ UNCHANGED <<procVars, pc, req, normalized, responses, wsVars,
                   convVars, engVars, rmVars>>

\* Line 77: the timer fires and aborts the controller: the pending fetch or
\* body read rejects with an AbortError. fs.writeFile was given no signal:
\* once the body is read an abort changes nothing of the Job, and the timer
\* counts as armed until clearTimeout.
FetchTimeout(i) ==
    /\ i \in DOMAIN fstate
    /\ ftimer[i] = "armed"
    /\ fstate[i] \in {"fetching", "body"}
    /\ FetchReject(i, Err(i, "AbortError", 0, <<>>), "inactive")
    /\ UNCHANGED <<procVars, pc, req, normalized, responses, wsVars,
                   convVars, engVars, rmVars>>

\* Line 85: fs.writeFile(outPath, text) is not one file-system operation:
\* it opens the file with flag "w" (created, or truncated if it exists),
\* writes the text at the start of the file, and closes it. The open fails
\* with ENOENT when the workspace directory is gone, and with EISDIR for
\* path.join(workdir, "."), the workspace directory itself.
FetchOpen(i) ==
    /\ i \in DOMAIN fstate
    /\ fstate[i] = "writing"
    /\ IF ~wsExists
       THEN /\ FetchReject(i, Err(i, "ENOENT", 0, <<>>), ClearTimeout(ftimer[i]))
            /\ UNCHANGED wsFiles
       ELSE IF normalized[i].fileName = <<".">>
       THEN /\ FetchReject(i, Err(i, "EISDIR", 0, <<>>), ClearTimeout(ftimer[i]))
            /\ UNCHANGED wsFiles
       ELSE /\ wsFiles' = WriteFile(wsFiles, normalized[i].fileName, Content("empty", 0))
            /\ fstate' = [fstate EXCEPT ![i] = "opened"]
            /\ UNCHANGED <<ftimer, ferr, allP, allRemaining, failOrder>>
    /\ UNCHANGED <<procVars, pc, req, normalized, responses, wsCreated,
                   wsExists, convVars, engVars, rmVars>>

\* What a file holds after text was written at its start: the text alone,
\* or, when the file held more than the text is long (shorter), the text
\* followed by the rest of what another writer had put there.
Written(current, i, shorter) ==
    IF shorter THEN Content("mixed", i) ELSE Content("json", i)

\* Line 85: the write and the close complete, and fetchJsonToFile returns.
\* A file unlinked since it was opened (detached) is written to without
\* effect on the directory.
FetchWrite(i, shorter) ==
    /\ i \in DOMAIN fstate
    /\ fstate[i] \in {"opened", "detached"}
    /\ IF fstate[i] = "opened"
       THEN LET current == (CHOOSE f \in wsFiles : f.name = normalized[i].fileName).content
            IN  /\ shorter => current.kind # "empty"
                /\ wsFiles' = WriteFile(wsFiles, normalized[i].fileName,
                                        Written(current, i, shorter))
       ELSE /\ ~shorter
            /\ UNCHANGED wsFiles
    /\ FetchFulfil(i)
    /\ UNCHANGED <<procVars, pc, req, normalized, responses, wsCreated,
                   wsExists, convVars, engVars, rmVars>>

\* ------------------------------------------------------------ conversion

\* What y2r.convert can do: return a string, an array of quads or something
\* else, or throw; with the entries its logger then holds.
ConvertShapes == {"string", "array", "other", "throw"}
ConvertLogs == { <<"warn">>, <<"warn", "error">> }
ConvertResults == [shape : ConvertShapes, log : ConvertLogs]

\* A test of the first entry only.
LoggerHasFirst(log, level) == log # <<>> /\ log[1] = level

\* Logger.has(level)
LoggerHas(log, level) == \E k \in 1..Len(log) : log[k] = level

\* Lines 195-228: Promise.all has settled and the handler resumes. A
\* rejection goes to catch. Otherwise convert runs (synchronously) and the
\* handler goes on to its next await, or leaves through return or throw.
AfterFetchAll(result) ==
    /\ pc = "fetchAll"
    /\ allP.state # "pending"
    /\ IF allP.state = "rejected"
       THEN /\ Catch(allP.reason)
            /\ UNCHANGED convVars
       ELSE /\ converted' = result
            /\ IF result.shape = "throw"
               THEN /\ Catch(Err(0, "convert threw", 0, <<>>))
                    /\ UNCHANGED rmlTurtle
               ELSE IF LoggerHas(result.log, "error")
               THEN /\ responses' = Append(responses,
                          Response(422, "YARRRML conversion failed", NoErr, result.log, JsonType, NoContent))
                    /\ Finally
                    /\ UNCHANGED rmlTurtle
               ELSE IF result.shape = "string"
               THEN /\ rmlTurtle' = Content("rml", 0)
                    /\ pc' = "writeMapping"
                    /\ UNCHANGED <<responses, rmVars>>
               ELSE IF result.shape = "array"
               THEN /\ pc' = "quadsToTurtle"
                    /\ UNCHANGED <<responses, rmlTurtle, rmVars>>
               ELSE /\ Catch(Err(0, "Unexpected yarrrml convert() return type", 0, <<>>))
                    /\ UNCHANGED rmlTurtle
    /\ UNCHANGED <<procVars, req, normalized, wsVars, fetchVars, engVars>>

\* Lines 128-134 and 220-228: the N3 writer ends, with the Turtle text or
\* with an error.
QuadsToTurtle(ok) ==
    /\ pc = "quadsToTurtle"
    /\ IF ok
       THEN /\ rmlTurtle' = Content("rml-from-quads", 0)
            /\ pc' = "writeMapping"
            /\ UNCHANGED <<responses, rmVars>>
       ELSE /\ Catch(Err(0, "N3 writer error", 0, <<>>))
            /\ UNCHANGED rmlTurtle
    /\ UNCHANGED <<procVars, req, normalized, wsVars, fetchVars, converted, engVars>>

\* ---------------------------------------------------------------- engine

\* Arguments with the mapping path given as the output path too.
EngineArgsOutputIsMapping(mappingPath, outputPath, serialization, baseIri) ==
    [m |-> mappingPath, o |-> mappingPath,
     s |-> IF serialization # "" THEN <<serialization>> ELSE <<>>,
     b |-> IF baseIri # "" THEN <<baseIri>> ELSE <<>>]

\* Lines 93-96: the arguments after "-jar", RMLMAPPER_JAR: -m and -o always,
\* -s and -b when the value is non-empty. BASE_IRI is taken as unset.
EngineArgs(mappingPath, outputPath, serialization, baseIri) ==
    [m |-> mappingPath, o |-> outputPath,
     s |-> IF serialization # "" THEN <<serialization>> ELSE <<>>,
     b |-> IF baseIri # "" THEN <<baseIri>> ELSE <<>>]

\* Lines 228-238 and 91-111: the mapping document has been written (or the
\* write failed); on success runRmlMapper spawns the child and attaches its
\* handlers in the same turn.
WriteMapping(ioOk) ==
    /\ pc = "writeMapping"
    /\ IF wsExists /\ ioOk
       THEN /\ wsFiles' = WriteFile(wsFiles, MappingTtl, rmlTurtle)
            /\ child' = "spawned"
            /\ engP' = Pending
            /\ stderr' = <<>>
            /\ spawnCount' = spawnCount + 1
            /\ engArgs' = EngineArgs(MappingTtl, outputName(req.serialization),
                                     req.serialization, "")
            /\ pc' = "engine"
            /\ UNCHANGED <<responses, stderrAll, dataEvents, exitCode, rmVars>>
       ELSE /\ Catch(Err(0, IF wsExists THEN "EIO" ELSE "ENOENT", 0, <<>>))
            /\ UNCHANGED <<wsFiles, engVars>>
    /\ UNCHANGED <<procVars, req, normalized, wsCreated, wsExists,
                   fetchVars, convVars>>

\* A handler that keeps the first characters (slice(0, n)) instead of the last.
StderrAppendHead(text, d) ==
    LET joined == text \o d
    IN  IF Len(joined) > StderrLimit THEN SubSeq(joined, 1, StderrLimit) ELSE joined

\* Lines 101-104: the stderr handler.
StderrAppend(text, d) ==
    LET joined == text \o d
    IN  IF Len(joined) > StderrLimit THEN SliceLast(joined, StderrLimit) ELSE joined

\* Lines 106-110: the child's event handlers.
OnError(p, e) == PromiseReject(p, e)

\* A close handler that settles whatever the state of the promise.
OnCloseOverwrite(p, code, text) ==
    IF code = 0 THEN [state |-> "fulfilled", reason |-> NoErr]
    ELSE [state |-> "rejected",
          reason |-> Err(0, "RMLMapper exited with code", code, text)]

OnClose(p, code, text) ==
    IF code = 0 THEN PromiseResolve(p)
    ELSE PromiseReject(p, Err(0, "RMLMapper exited with code", code, text))

\* The chunks a data event can deliver.
StderrChunks == { <<"x">>, <<"y", "z">>, <<"w", "x", "y", "z">> }

\* The exit codes of a child that ran.
ExitCodes == {0, 1}

\* The process could not be spawned (no java on the PATH, ...): the child
\* emits "error", and "close" later.
EngineSpawnError ==
    /\ child = "spawned"
    /\ child' = "errored"
    /\ engP' = OnError(engP, Err(0, "spawn java ENOENT", 0, <<>>))
    /\ UNCHANGED <<procVars, pc, req, normalized, responses, wsVars, fetchVars,
                   convVars, stderr, stderrAll, dataEvents, spawnCount, engArgs,
                   exitCode, rmVars>>

\* The process has started.
EngineStart ==
    /\ child = "spawned"
    /\ child' = "running"
    /\ UNCHANGED <<procVars, pc, req, normalized, responses, wsVars, fetchVars,
                   convVars, engP, stderr, stderrAll, dataEvents, spawnCount, engArgs,
                   exitCode, rmVars>>

\* A chunk of the child's stderr arrives.
EngineData(d) ==
    /\ child = "running"
    /\ dataEvents < MaxData
    /\ stderr' = StderrAppend(stderr, d)
    /\ stderrAll' = stderrAll \o d
    /\ dataEvents' = dataEvents + 1
    /\ UNCHANGED <<procVars, pc, req, normalized, responses, wsVars, fetchVars,
                   convVars, child, engP, spawnCount, engArgs, exitCode, rmVars>>

\* The child has exited and its streams are closed; it may have written the
\* output file it was given with -o.
EngineClose(code, wrote) ==
    /\ child = "running"
    /\ child' = "closed"
    /\ engP' = OnClose(engP, code, stderr)
    /\ exitCode' = Append(exitCode, code)
    /\ wsFiles' = IF wrote /\ wsExists
                  THEN WriteFile(wsFiles, engArgs.o, Content("rdf", 0))
                  ELSE wsFiles
    /\ UNCHANGED <<procVars, pc, req, normalized, responses, wsCreated, wsExists,
                   fetchVars, convVars, stderr, stderrAll, dataEvents, spawnCount,
                   engArgs, rmVars>>

\* The "close" event that follows the "error" event of a failed spawn; its
\* code is the negated errno.
EngineCloseAfterError ==
    /\ child = "errored"
    /\ child' = "errorClosed"
    /\ engP' = OnClose(engP, -2, stderr)
    /\ exitCode' = Append(exitCode, -2)
    /\ UNCHANGED <<procVars, pc, req, normalized, responses, wsVars, fetchVars,
                   convVars, stderr, stderrAll, dataEvents, spawnCount, engArgs, rmVars>>

\* A handler that does not wait for the promise to settle.
AfterEngineDetached ==
    /\ pc = "engine"
    /\ IF engP.state = "fulfilled"
       THEN /\ pc' = "readOutput"
            /\ UNCHANGED <<responses, rmVars>>
       ELSE Catch(engP.reason)
    /\ UNCHANGED <<procVars, req, normalized, wsVars, fetchVars, convVars, engVars>>

\* Lines 232-241: runRmlMapper's promise has settled and the handler
\* resumes: it starts reading the output, or goes to catch.
AfterEngine ==
    /\ pc = "engine"
    /\ engP.state # "pending"
    /\ IF engP.state = "fulfilled"
       THEN /\ pc' = "readOutput"
            /\ UNCHANGED <<responses, rmVars>>
       ELSE Catch(engP.reason)
    /\ UNCHANGED <<procVars, req, normalized, wsVars, fetchVars, convVars, engVars>>

\* A handler that answers 200 with an empty body when the output cannot be
\* read.
ReadOutputLenient(ioOk) ==
    /\ pc = "readOutput"
    /\ LET path == outputName(req.serialization)
       IN  responses' = Append(responses,
               Response(200, "", NoErr, <<>>,
                        ContentType(contentTypeFor(req.serialization)),
                        IF wsExists /\ path \in FileNames(wsFiles) /\ ioOk
                        THEN (CHOOSE f \in wsFiles : f.name = path).content
                        ELSE NoContent))
    /\ Finally
    /\ UNCHANGED <<procVars, req, normalized, wsVars, fetchVars, convVars, engVars>>

\* Lines 241-245: fs.readFile(outputPath) completes.
ReadOutput(ioOk) ==
    /\ pc = "readOutput"
    /\ LET path == outputName(req.serialization)
       IN  IF wsExists /\ path \in FileNames(wsFiles) /\ ioOk
           THEN /\ responses' = Append(responses,
                      Response(200, "", NoErr, <<>>,
                               ContentType(contentTypeFor(req.serialization)),
                               (CHOOSE f \in wsFiles : f.name = path).content))
                /\ Finally
           ELSE Catch(Err(0, IF wsExists /\ path \in FileNames(wsFiles)
                             THEN "EIO" ELSE "ENOENT", 0, <<>>))
    /\ UNCHANGED <<procVars, req, normalized, wsVars, fetchVars, convVars, engVars>>

\* -------------------------------------------------------------- teardown
\* fs.rm(workdir, {recursive: true, force: true}) of line 253 is not one
\* file-system operation: it tries rmdir, on a non-empty directory reads the
\* entries, removes each, and calls rmdir again. It retries nothing
\* (maxRetries is not given). Its rejection is swallowed by catch {}.

\* The first rmdir: done on a missing (force) or empty directory. ioOk false
\* is a failure of the removal for a cause of its own (EPERM, EBUSY, ...).
RmBegin(ioOk) ==
    /\ pc = "rm"
    /\ IF ~wsExists
       THEN /\ rmResult' = "ok"
            /\ pc' = "done"
            /\ UNCHANGED <<wsExists, rmListed>>
       ELSE IF ~ioOk
       THEN /\ rmResult' = "fault"
            /\ pc' = "done"
            /\ UNCHANGED <<wsExists, rmListed>>
       ELSE IF wsFiles = {}
       THEN /\ wsExists' = FALSE
            /\ rmResult' = "ok"
            /\ pc' = "done"
            /\ UNCHANGED rmListed
       ELSE /\ rmListed' = FileNames(wsFiles)
            /\ pc' = "rmChildren"
            /\ UNCHANGED <<wsExists, rmResult>>
    /\ UNCHANGED <<procVars, req, normalized, responses, wsCreated, wsFiles,
                   fetchVars, convVars, engVars, rmCalls>>

\* The entries read are removed (unlinked); a fetch that has such a file
\* open keeps its descriptor.
RmChildren ==
    /\ pc = "rmChildren"
    /\ wsFiles' = {f \in wsFiles : f.name \notin rmListed}
    /\ fstate' = [i \in DOMAIN fstate |->
                     IF fstate[i] = "opened" /\ normalized[i].fileName \in rmListed
                     THEN "detached" ELSE fstate[i]]
    /\ pc' = "rmdir"
    /\ UNCHANGED <<procVars, req, normalized, responses, wsCreated, wsExists,
                   ftimer, ferr, allP, allRemaining, failOrder, convVars, engVars,
                   rmVars>>

\* The last rmdir: ENOTEMPTY when a file was created since the entries were
\* read. Then await fs.rm returns or throws into catch {}, and the handler
\* returns.
RmDir ==
    /\ pc = "rmdir"
    /\ IF wsFiles = {}
       THEN /\ wsExists' = FALSE
            /\ rmResult' = "ok"
       ELSE /\ rmResult' = "notempty"
            /\ UNCHANGED wsExists
    /\ pc' = "done"
    /\ UNCHANGED <<procVars, req, normalized, responses, wsCreated, wsFiles,
                   fetchVars, convVars, engVars, rmCalls, rmListed>>

Next ==
    \/ Receive
    \/ \E ok \in BOOLEAN : Mkdtemp(ok)
    \/ \E i \in 1..MaxResources, status \in FetchStatuses : FetchResponse(i, status)
    \/ \E i \in 1..MaxResources : FetchNetworkError(i)
    \/ \E i \in 1..MaxResources, isJson \in BOOLEAN : FetchBody(i, isJson)
    \/ \E i \in 1..MaxResources : FetchTimeout(i)
    \/ \E i \in 1..MaxResources : FetchOpen(i)
    \/ \E i \in 1..MaxResources, shorter \in BOOLEAN : FetchWrite(i, shorter)
    \/ \E result \in ConvertResults : AfterFetchAll(result)
    \/ \E ok \in BOOLEAN : QuadsToTurtle(ok)
    \/ \E ioOk \in BOOLEAN : WriteMapping(ioOk)
    \/ EngineSpawnError
    \/ EngineStart
    \/ \E d \in StderrChunks : EngineData(d)
    \/ \E code \in ExitCodes, wrote \in BOOLEAN : EngineClose(code, wrote)
    \/ EngineCloseAfterError
    \/ AfterEngine
    \/ \E ioOk \in BOOLEAN : ReadOutput(ioOk)
    \/ \E ioOk \in BOOLEAN : RmBegin(ioOk)
    \/ RmChildren
    \/ RmDir

Spec == Init /\ [][Next]_vars

\* What the event loop guarantees whatever the remote endpoints do: a timer
\* that is armed fires, a local file operation that was started completes,
\* and a handler whose awaited promise has settled is resumed.
Fairness ==
    /\ \A i \in 1..MaxResources :
          /\ WF_vars(FetchTimeout(i))
          /\ WF_vars(FetchOpen(i))
          /\ WF_vars(\E shorter \in BOOLEAN : FetchWrite(i, shorter))
    /\ WF_vars(\E result \in ConvertResults : AfterFetchAll(result))

\* The handler with lists of up to MaxLiveResources resources.
MaxLiveResources == 2

ReceiveLive ==
    /\ pc = "idle"
    /\ \E request \in Requests :
          /\ Len(request.resources) <= MaxLiveResources
          /\ Post(request)

LiveNext ==
    \/ ReceiveLive
    \/ \E ok \in BOOLEAN : Mkdtemp(ok)
    \/ \E i \in 1..MaxResources, status \in FetchStatuses : FetchResponse(i, status)
    \/ \E i \in 1..MaxResources : FetchNetworkError(i)
    \/ \E i \in 1..MaxResources, isJson \in BOOLEAN : FetchBody(i, isJson)
    \/ \E i \in 1..MaxResources : FetchTimeout(i)
    \/ \E i \in 1..MaxResources : FetchOpen(i)
    \/ \E i \in 1..MaxResources, shorter \in BOOLEAN : FetchWrite(i, shorter)
    \/ \E result \in ConvertResults : AfterFetchAll(result)
    \/ \E ok \in BOOLEAN : QuadsToTurtle(ok)
    \/ \E ioOk \in BOOLEAN : WriteMapping(ioOk)
    \/ EngineSpawnError
    \/ EngineStart
    \/ \E d \in StderrChunks : EngineData(d)
    \/ \E code \in ExitCodes, wrote \in BOOLEAN : EngineClose(code, wrote)
    \/ EngineCloseAfterError
    \/ AfterEngine
    \/ \E ioOk \in BOOLEAN : ReadOutput(ioOk)
    \/ \E ioOk \in BOOLEAN : RmBegin(ioOk)
    \/ RmChildren
    \/ RmDir

LiveSpec == Init /\ [][LiveNext]_vars /\ Fairness

\* ------------------------------------------- the host allow-list, in depth
\* Requests with one reference, under every value of ALLOWED_FETCH_HOSTS of
\* up to MaxEnvLen characters; the handler is followed through validation.

MaxEnvLen == 3

EnvChars == {"g", "x", ",", " ", "*", ":", "8"}

HostEnvs == SeqsUpTo(EnvChars, MaxEnvLen)

\* An absolute URL with a port: URL.hostname does not include it.
UrlWithPort(protocol, hostname, port) ==
    [kind |-> "url", protocol |-> protocol, hostname |-> hostname, port |-> port]

HostUrlCandidates ==
    { BlankUrl, TextUrl, Url("ftp:", <<"g">>), Url("https:", <<"g">>),
      Url("http:", <<"x", "g">>), Url("https:", <<"g", "x">>),
      UrlWithPort("http:", <<"g">>, <<"8">>) }

HostRequests ==
    [yarrml : {"text"},
     hasResources : {TRUE},
     resources : { <<[resourceUrl |-> u, fileName |-> <<"a">>]>> : u \in HostUrlCandidates },
     serialization : {"nquads"}]

HostInit ==
    /\ allowedHosts \in HostEnvs
    /\ InitJob

ReceiveHost ==
    /\ pc = "idle"
    /\ \E request \in HostRequests : Post(request)

HostNext == ReceiveHost

HostSpec == HostInit /\ [][HostNext]_vars

\* ------------------------------------------------- file names, in depth
\* Jobs with one resource whose fileName is any string of up to MaxNameLen
\* characters (letters, a digit, the dot and the dash, both slashes,
\* whitespace, a character outside the class), or absent; the handler is
\* followed through validation and the fetch phase, where the names are used.

MaxNameLen == 3

FileNameChars == {"a", "Z", "0", "-", ".", "/", "\\", " ", "*"}

FileNameInputs == SeqsUpTo(FileNameChars, MaxNameLen)

NameRequests ==
    [yarrml : {"text"},
     hasResources : {TRUE},
     resources : { <<[resourceUrl |-> Url("https:", Good), fileName |-> n]>> :
                      n \in FileNameInputs },
     serialization : {"nquads"}]

NameInit ==
    /\ allowedHosts = <<>>
    /\ InitJob

ReceiveName ==
    /\ pc = "idle"
    /\ \E request \in NameRequests : Post(request)

NameNext ==
    \/ ReceiveName
    \/ \E ok \in BOOLEAN : Mkdtemp(ok)
    \/ \E i \in 1..MaxResources, status \in FetchStatuses : FetchResponse(i, status)
    \/ \E i \in 1..MaxResources : FetchNetworkError(i)
    \/ \E i \in 1..MaxResources, isJson \in BOOLEAN : FetchBody(i, isJson)
    \/ \E i \in 1..MaxResources : FetchTimeout(i)
    \/ \E i \in 1..MaxResources : FetchOpen(i)
    \/ \E i \in 1..MaxResources, shorter \in BOOLEAN : FetchWrite(i, shorter)

NameSpec == NameInit /\ [][NameNext]_vars

\* ----------------------------------------------- serializations, in depth
\* Jobs with one valid resource, for the four recognized serializations,
\* unrecognized ones and the empty one (a blank query value, or a blank
\* DEFAULT_SERIALIZATION, trims to "").

SerializationValues == {"turtle", "trig", "jsonld", "nquads", "ntriples", "Turtle", ""}

FormatRequests ==
    [yarrml : {"text"},
     hasResources : {TRUE},
     resources : { <<[resourceUrl |-> Url("https:", Good), fileName |-> <<"a">>]>> },
     serialization : SerializationValues]

ReceiveFormat ==
    /\ pc = "idle"
    /\ \E request \in FormatRequests : Post(request)

FormatNext ==
    \/ ReceiveFormat
    \/ \E ok \in BOOLEAN : Mkdtemp(ok)
    \/ \E i \in 1..MaxResources, status \in FetchStatuses : FetchResponse(i, status)
    \/ \E i \in 1..MaxResources : FetchNetworkError(i)
    \/ \E i \in 1..MaxResources, isJson \in BOOLEAN : FetchBody(i, isJson)
    \/ \E i \in 1..MaxResources : FetchTimeout(i)
    \/ \E i \in 1..MaxResources : FetchOpen(i)
    \/ \E i \in 1..MaxResources, shorter \in BOOLEAN : FetchWrite(i, shorter)
    \/ \E result \in ConvertResults : AfterFetchAll(result)
    \/ \E ok \in BOOLEAN : QuadsToTurtle(ok)
    \/ \E ioOk \in BOOLEAN : WriteMapping(ioOk)
    \/ EngineSpawnError
    \/ EngineStart
    \/ \E d \in StderrChunks : EngineData(d)
    \/ \E code \in ExitCodes, wrote \in BOOLEAN : EngineClose(code, wrote)
    \/ EngineCloseAfterError
    \/ AfterEngine
    \/ \E ioOk \in BOOLEAN : ReadOutput(ioOk)
    \/ \E ioOk \in BOOLEAN : RmBegin(ioOk)
    \/ RmChildren
    \/ RmDir

FormatSpec == NameInit /\ [][FormatNext]_vars

\* ------------------------------------- resources named like the Job's files
\* Jobs with one or two valid resources whose file names are those of the
\* mapping document, of the output file, or another name.

OutputNq == <<"o", "u", "t", "p", "u", "t", ".", "n", "q">>

ClashRequests ==
    [yarrml : {"text"},
     hasResources : {TRUE},
     resources : { rs \in SeqsUpTo([resourceUrl : {Url("https:", Good)},
                                    fileName : {MappingTtl, OutputNq, <<"a">>}], 2) :
                      rs # <<>> },
     serialization : {"nquads"}]

ReceiveClash ==
    /\ pc = "idle"
    /\ \E request \in ClashRequests : Post(request)

ClashNext ==
    \/ ReceiveClash
    \/ \E ok \in BOOLEAN : Mkdtemp(ok)
    \/ \E i \in 1..MaxResources, status \in FetchStatuses : FetchResponse(i, status)
    \/ \E i \in 1..MaxResources : FetchNetworkError(i)
    \/ \E i \in 1..MaxResources, isJson \in BOOLEAN : FetchBody(i, isJson)
    \/ \E i \in 1..MaxResources : FetchTimeout(i)
    \/ \E i \in 1..MaxResources : FetchOpen(i)
    \/ \E i \in 1..MaxResources, shorter \in BOOLEAN : FetchWrite(i, shorter)
    \/ \E result \in ConvertResults : AfterFetchAll(result)
    \/ \E ok \in BOOLEAN : QuadsToTurtle(ok)
    \/ \E ioOk \in BOOLEAN : WriteMapping(ioOk)
    \/ EngineSpawnError
    \/ EngineStart
    \/ \E d \in StderrChunks : EngineData(d)
    \/ \E code \in ExitCodes, wrote \in BOOLEAN : EngineClose(code, wrote)
    \/ EngineCloseAfterError
    \/ AfterEngine
    \/ \E ioOk \in BOOLEAN : ReadOutput(ioOk)
    \/ \E ioOk \in BOOLEAN : RmBegin(ioOk)
    \/ RmChildren
    \/ RmDir

ClashSpec == NameInit /\ [][ClashNext]_vars

\* ------------------------------------------------- Jobs side by side: steps
\* Each step belongs to one Job j and names its paths as the handler does:
\* path.join(workdir, ...) with the workdir that Job's mkdtemp returned. A
\* file records the Job whose call wrote it.

\* A generator that returns its first value again.
randomUUIDRepeats(count) == IF count = 0 THEN 1 ELSE count

\* crypto.randomUUID (line 184): a value it has not returned before.
randomUUID(count) == count + 1

File(dir, name, by) == [dir |-> dir, name |-> name, by |-> by]

\* fs.writeFile(path.join(dir, name), ...) by a call of Job `by`.
WriteFileAt(files, dir, name, by) ==
    {f \in files : ~(f.dir = dir /\ f.name = name)} \cup {File(dir, name, by)}

FilesIn(dir) == {f \in tmpFiles : f.dir = dir}

\* Lines 137-184: the request passes validation and takes its jobId.
JobPost(j) ==
    /\ jobs[j].pc = "idle"
    /\ uuidCount' = randomUUID(uuidCount)
    /\ jobs' = [jobs EXCEPT ![j].pc = "mkdtemp",
                            ![j].jobId = randomUUID(uuidCount)]
    /\ UNCHANGED <<allowedHosts, tmpDirs, tmpFiles, handlerVars>>

\* Line 185: mkdtemp creates a directory that did not exist, or rejects;
\* lines 194-199 then start the fetches.
JobMkdtemp(j, suffix, ok) ==
    /\ jobs[j].pc = "mkdtemp"
    /\ LET d == Workdir(jobs[j].jobId, suffix)
       IN  /\ ok => d \notin tmpDirs
           /\ IF ok
              THEN /\ tmpDirs' = tmpDirs \cup {d}
                   /\ jobs' = [jobs EXCEPT
                         ![j].pc = "fetchAll",
                         ![j].workdir = d,
                         ![j].fst = [i \in 1..Len(JobFileNames) |-> "fetching"]]
              ELSE /\ tmpDirs' = tmpDirs
                   /\ jobs' = [jobs EXCEPT ![j].pc = "rejected"]
    /\ UNCHANGED <<allowedHosts, tmpFiles, uuidCount, handlerVars>>

\* Lines 76-84 of fetchJsonToFile: the fetch gets its text, or fails or
\* times out.
JobFetchSettle(j, i, ok) ==
    /\ i \in DOMAIN jobs[j].fst
    /\ jobs[j].fst[i] = "fetching"
    /\ jobs' = [jobs EXCEPT ![j].fst[i] = IF ok THEN "writing" ELSE "rejected"]
    /\ UNCHANGED <<allowedHosts, tmpDirs, tmpFiles, uuidCount, handlerVars>>

\* Line 85 with the destination of line 197, whatever the handler has done
\* in the meantime.
JobFetchWrite(j, i) ==
    /\ i \in DOMAIN jobs[j].fst
    /\ jobs[j].fst[i] = "writing"
    /\ LET d == jobs[j].workdir
       IN  IF d \in tmpDirs
           THEN /\ tmpFiles' = WriteFileAt(tmpFiles, d, JobFileNames[i], j)
                /\ jobs' = [jobs EXCEPT ![j].fst[i] = "fulfilled"]
           ELSE /\ tmpFiles' = tmpFiles
                /\ jobs' = [jobs EXCEPT ![j].fst[i] = "rejected"]
    /\ UNCHANGED <<allowedHosts, tmpDirs, uuidCount, handlerVars>>

\* Lines 194-227 after Promise.all: the first rejection goes to the catch
\* block; otherwise the mapping is converted.
JobAfterFetchAll(j, convOk) ==
    /\ jobs[j].pc = "fetchAll"
    /\ LET fst == jobs[j].fst
           failed == \E i \in DOMAIN fst : fst[i] = "rejected"
       IN  /\ failed \/ \A i \in DOMAIN fst : fst[i] = "fulfilled"
           /\ failed => convOk
           /\ IF failed \/ ~convOk
              THEN jobs' = [jobs EXCEPT ![j].pc = "rm",
                                        ![j].resp = Append(@, 422)]
              ELSE jobs' = [jobs EXCEPT ![j].pc = "writeMapping"]
    /\ UNCHANGED <<allowedHosts, tmpDirs, tmpFiles, uuidCount, handlerVars>>

\* Lines 228 and 232-238, 98: the mapping document is written at
\* path.join(workdir, "mapping.ttl") and the engine is spawned with
\* cwd: workdir.
JobWriteMapping(j) ==
    /\ jobs[j].pc = "writeMapping"
    /\ LET d == jobs[j].workdir
       IN  IF d \in tmpDirs
           THEN /\ tmpFiles' = WriteFileAt(tmpFiles, d, MappingTtl, j)
                /\ jobs' = [jobs EXCEPT ![j].pc = "engine", ![j].cwd = d]
           ELSE /\ tmpFiles' = tmpFiles
                /\ jobs' = [jobs EXCEPT ![j].pc = "rm",
                                        ![j].resp = Append(@, 422)]
    /\ UNCHANGED <<allowedHosts, tmpDirs, uuidCount, handlerVars>>

\* Lines 92-111: the engine reads the files of its cwd and, when it gets
\* that far, writes the -o path of line 190; "close" settles the promise.
\* sources records whose files the engine found in its cwd.
JobEngineClose(j, code, wrote) ==
    /\ jobs[j].pc = "engine"
    /\ tmpFiles' = IF wrote
                   THEN WriteFileAt(tmpFiles, jobs[j].workdir, OutputNq, j)
                   ELSE tmpFiles
    /\ LET read == {f.by : f \in FilesIn(jobs[j].cwd)}
       IN  IF code = 0
           THEN jobs' = [jobs EXCEPT ![j].pc = "readOutput",
                                     ![j].sources = read]
           ELSE jobs' = [jobs EXCEPT ![j].pc = "rm",
                                     ![j].sources = read,
                                     ![j].resp = Append(@, 422)]
    /\ UNCHANGED <<allowedHosts, tmpDirs, uuidCount, handlerVars>>

\* Lines 241-245: the output is read from path.join(workdir, "output.nq")
\* and sent.
JobReadOutput(j) ==
    /\ jobs[j].pc = "readOutput"
    /\ LET out == {f \in FilesIn(jobs[j].workdir) :
                       f.name = OutputNq}
       IN  IF out # {}
           THEN jobs' = [jobs EXCEPT
                    ![j].pc = "rm",
                    ![j].resp = Append(@, 200),
                    ![j].body = <<(CHOOSE f \in out : TRUE).by>>]
           ELSE jobs' = [jobs EXCEPT ![j].pc = "rm",
                                     ![j].resp = Append(@, 422)]
    /\ UNCHANGED <<allowedHosts, tmpDirs, tmpFiles, uuidCount, handlerVars>>

\* Line 253, first half: fs.rm(workdir, ...) lists the directory.
JobRmList(j) ==
    /\ jobs[j].pc = "rm"
    /\ jobs' = [jobs EXCEPT ![j].pc = "rmChildren",
                            ![j].listed = FilesIn(jobs[j].workdir)]
    /\ UNCHANGED <<allowedHosts, tmpDirs, tmpFiles, uuidCount, handlerVars>>

\* Line 253, second half: the listed entries are unlinked and the
\* directory removed, unless an entry has appeared since the listing.
JobRmFinish(j) ==
    /\ jobs[j].pc = "rmChildren"
    /\ LET d == jobs[j].workdir
           names == {f.name : f \in jobs[j].listed}
           kept == {f \in tmpFiles : ~(f.dir = d /\ f.name \in names)}
       IN  /\ tmpFiles' = kept
           /\ tmpDirs' = IF \E f \in kept : f.dir = d
                         THEN tmpDirs
                         ELSE tmpDirs \ {d}
    /\ jobs' = [jobs EXCEPT ![j].pc = "done", ![j].listed = {}]
    /\ UNCHANGED <<allowedHosts, uuidCount, handlerVars>>

JobsNext ==
    \/ \E j \in JobIds : JobPost(j)
    \/ \E j \in JobIds, suffix \in Suffixes, ok \in BOOLEAN :
           JobMkdtemp(j, suffix, ok)
    \/ \E j \in JobIds, i \in 1..Len(JobFileNames), ok \in BOOLEAN :
           JobFetchSettle(j, i, ok)
    \/ \E j \in JobIds, i \in 1..Len(JobFileNames) : JobFetchWrite(j, i)
    \/ \E j \in JobIds, convOk \in BOOLEAN : JobAfterFetchAll(j, convOk)
    \/ \E j \in JobIds : JobWriteMapping(j)
    \/ \E j \in JobIds, code \in {0, 1}, wrote \in BOOLEAN :
           JobEngineClose(j, code, wrote)
    \/ \E j \in JobIds : JobReadOutput(j)
    \/ \E j \in JobIds : JobRmList(j)
    \/ \E j \in JobIds : JobRmFinish(j)

JobsSpec == NameInit /\ [][JobsNext]_vars

\* ---------------------------------------------------------------- claims

\* The handler has exited: it returned, or its promise rejected.
Exited == pc \in {"done", "rejected"}

SuccessSent == \E k \in 1..Len(responses) : responses[k].status = 200

\* A failure response of catch or of the conversion check (not of validation).
JobFailureSent == \E k \in 1..Len(responses) : responses[k].status = 422

RmFinished == rmResult \in {"ok", "fault", "notempty"}

\* C1: for a Job whose workspace was created, fs.rm is called exactly once,
\* when the handler leaves its try block, and has completed (with or without
\* an error) when the handler exits, on every exit path; and from the call of
\* fs.rm on, whatever the removal does, the responses sent do not change.
C1_TeardownExactlyOnce ==
    /\ [](rmCalls <= 1)
    /\ [](rmCalls = 1 => wsCreated /\ pc \in {"rm", "rmChildren", "rmdir", "done"})
    /\ []((Exited /\ wsCreated) => (rmCalls = 1 /\ RmFinished /\ Len(responses) = 1))
    /\ [][rmCalls >= 1 => responses' = responses]_vars

\* The removal failed after the success response was sent, and the response
\* is still the success response.
C1_Witness ==
    /\ pc = "done"
    /\ rmResult = "fault"
    /\ wsExists
    /\ SuccessSent

\* The reference is empty, not a well-formed http(s) URL, or its host is not
\* on a non-empty allow-list.
InvalidReference(r) ==
    \/ r.resourceUrl.kind # "url"
    \/ r.resourceUrl.protocol \notin {"http:", "https:"}
    \/ (/\ AllowList(allowedHosts) # <<>>
        /\ \A k \in 1..Len(AllowList(allowedHosts)) :
              AllowList(allowedHosts)[k] # r.resourceUrl.hostname)

HasInvalidReference ==
    /\ pc # "idle"
    /\ req.hasResources
    /\ \E k \in 1..Len(req.resources) : InvalidReference(req.resources[k])

\* C2: a request with an invalid reference anywhere in its list is answered
\* with one 400 or 403 response and nothing else happens: no fetch is
\* started, no workspace is created, convert is not called and nothing is
\* spawned.
C2_InvalidReferenceRejectsAll ==
    HasInvalidReference =>
        /\ pc = "done"
        /\ Len(responses) = 1
        /\ responses[1].status \in {400, 403}
        /\ fstate = <<>>
        /\ normalized = <<>>
        /\ ~wsCreated /\ ~wsExists
        /\ converted = NoConversion
        /\ spawnCount = 0 /\ child = "none"
        /\ rmCalls = 0

\* A list whose first reference is valid and whose second is no http(s) URL.
C2_Witness ==
    /\ pc = "done"
    /\ req.yarrml = "text"
    /\ req.hasResources
    /\ Len(req.resources) = 2
    /\ ~InvalidReference(req.resources[1])
    /\ InvalidReference(req.resources[2])
    /\ Len(responses) = 1
    /\ responses[1].error = "resourceUrl must be http(s)"

FetchInProgress ==
    \E i \in DOMAIN fstate : fstate[i] \in {"fetching", "body", "writing", "opened", "detached"}
ConversionStarted == converted # NoConversion
EngineInProgress == child \in {"spawned", "running"}
OutputReadStarted == pc = "readOutput" \/ SuccessSent

\* C3: convert is called only when every fetch of the Job is fulfilled and,
\* until teardown, each resource's file is in the workspace; the child is
\* spawned only when conversion has produced the mapping text and, as long
\* as the child is alive, the mapping document holds it; the output is read
\* only after the child's close event with code 0. No fetch is in progress
\* once conversion has started, no conversion once the child is spawned, no
\* child once the output is read.
C3_PhasesInOrder ==
    /\ ConversionStarted =>
          /\ Len(fstate) = Len(normalized)
          /\ \A i \in DOMAIN fstate : fstate[i] = "fulfilled"
          /\ allP.state = "fulfilled"
          /\ ~FetchInProgress
    /\ pc \in {"quadsToTurtle", "writeMapping", "engine", "readOutput"} =>
          /\ ConversionStarted
          /\ \A i \in 1..Len(normalized) : normalized[i].fileName \in FileNames(wsFiles)
    /\ spawnCount > 0 =>
          /\ converted.shape \in {"string", "array"}
          /\ rmlTurtle # NoContent
          /\ pc \notin {"fetchAll", "quadsToTurtle", "writeMapping"}
    /\ EngineInProgress =>
          /\ pc = "engine"
          /\ [name |-> MappingTtl, content |-> rmlTurtle] \in wsFiles
    /\ OutputReadStarted =>
          /\ spawnCount = 1
          /\ child = "closed"
          /\ exitCode = <<0>>
          /\ ~EngineInProgress

\* Two fetches wrote their files, the mapping was converted from quads, the
\* child exited with 0 and the output is being read.
C3_Witness ==
    /\ pc = "readOutput"
    /\ Len(normalized) = 2
    /\ converted.shape = "array"
    /\ exitCode = <<0>>

\* C4: never more than one response is sent, and once the handler of a
\* failing Job (one that sent no success response) has exited, exactly one
\* response has been sent.
C4_ExactlyOneResponse ==
    /\ Len(responses) <= 1
    /\ (Exited /\ ~SuccessSent) => Len(responses) = 1

\* C5 as stated: a failure response of a Job that got its workspace is sent
\* only when the teardown has run.
C5_ResponseAfterTeardown ==
    (wsCreated /\ JobFailureSent) => RmFinished

\* C5, amended: the failure response of a Job that got its workspace is sent
\* while the workspace still exists and before fs.rm has been called, fs.rm
\* is called in the same turn, and the handler returns only when the removal
\* has finished.
C5_ResponseBeforeTeardown ==
    /\ [][(Len(responses') > Len(responses) /\ responses'[Len(responses')].status = 422)
            => (/\ wsExists /\ rmCalls = 0 /\ rmResult = "none"
                /\ wsExists' /\ rmCalls' = 1 /\ rmResult' = "none" /\ pc' = "rm")]_vars
    /\ []((JobFailureSent /\ ~RmFinished) => pc \in {"rm", "rmChildren", "rmdir"})
    /\ []((JobFailureSent /\ Exited) => RmFinished)

\* The failure response is out and the removal is half way.
C5_Witness ==
    /\ JobFailureSent
    /\ pc = "rmChildren"
    /\ wsExists

\* C6: when the handler of a Job one of whose fetches got a non-2xx response
\* has returned, and the removal did not fail for a cause of its own, the
\* workspace does not exist and holds no file.
C6_WorkspaceGoneAfterFetchFailure ==
    (/\ pc = "done"
     /\ \E i \in DOMAIN ferr : ferr[i].msg = "Fetch failed: HTTP"
     /\ rmResult # "fault")
        => (~wsExists /\ wsFiles = {})

\* C7: once a fetch has rejected, Promise.all is rejected with the error of
\* the first fetch that rejected; convert is never called and nothing is
\* spawned; at most one response is sent and it is the "Mapping failed"
\* response carrying that error, whatever the sibling fetches do later.
C7_FirstFetchFailureSurfaced ==
    failOrder # <<>> =>
        /\ allP = [state |-> "rejected", reason |-> ferr[failOrder[1]]]
        /\ converted = NoConversion
        /\ spawnCount = 0
        /\ Len(responses) <= 1
        /\ \A k \in 1..Len(responses) :
              responses[k] = Response(422, "Mapping failed", ferr[failOrder[1]],
                                      <<>>, JsonType, NoContent)
        /\ pc # "fetchAll" => Len(responses) = 1

\* Both fetches failed, the second after the response was sent.
C7_Witness ==
    /\ Len(failOrder) = 2
    /\ pc = "done"
    /\ Len(responses) = 1
    /\ ferr[failOrder[1]].msg = "AbortError"
    /\ ferr[failOrder[2]].msg = "SyntaxError"

ConversionReportedError ==
    /\ ConversionStarted
    /\ converted.shape # "throw"
    /\ \E k \in 1..Len(converted.log) : converted.log[k] = "error"

\* C8: when convert returned (a string, an array or anything else) and the
\* logger holds an error entry, the one response sent is the 422 "YARRRML
\* conversion failed" response with the logger's entries; no mapping text is
\* produced or written and nothing is spawned.
C8_ConversionErrorStopsJob ==
    ConversionReportedError =>
        /\ responses = <<Response(422, "YARRRML conversion failed", NoErr,
                                  converted.log, JsonType, NoContent)>>
        /\ rmlTurtle = NoContent
        /\ \A f \in wsFiles : f.name # MappingTtl /\ f.content.kind \in {"json", "mixed"}
        /\ spawnCount = 0 /\ child = "none"
        /\ pc \in {"rm", "rmChildren", "rmdir", "done"}

\* convert returned an array of quads and logged an error.
C8_Witness ==
    /\ ConversionReportedError
    /\ converted.shape = "array"
    /\ pc = "done"

\* The state of the engine invocation, read off the child and the promise.
EngineState ==
    IF engP.state = "fulfilled" THEN "Succeeded"
    ELSE IF engP.state = "rejected" THEN "Failed"
    ELSE IF child = "running" THEN "Running"
    ELSE IF child = "spawned" THEN "Spawned"
    ELSE "None"

\* Failed is entered from Running (close with a non-zero code) or from
\* Spawned (the spawn error).
EngineEdges ==
    { <<"None", "Spawned">>, <<"Spawned", "Running">>, <<"Running", "Succeeded">>,
      <<"Running", "Failed">>, <<"Spawned", "Failed">> }

\* C9: the invocation moves along Spawned -> Running -> Succeeded | Failed
\* (Failed directly from Spawned on a spawn error); once the promise is
\* settled neither its state nor its reason changes, also under a later
\* close event; it is fulfilled only by a close with code 0 and rejected by
\* any other close and by a spawn error; spawn is called at most once.
C9_EngineStateMachine ==
    /\ [][EngineState' # EngineState => <<EngineState, EngineState'>> \in EngineEdges]_vars
    /\ [][engP.state # "pending" => engP' = engP]_vars
    /\ [](engP.state = "fulfilled" => (child = "closed" /\ exitCode = <<0>>))
    /\ []((child = "closed" /\ exitCode # <<0>>) => engP.state = "rejected")
    /\ [](child \in {"errored", "errorClosed"} =>
              engP = [state |-> "rejected",
                      reason |-> Err(0, "spawn java ENOENT", 0, <<>>)])
    /\ [](spawnCount <= 1 /\ Len(exitCode) <= 1)

\* The error event and then the close event were delivered.
C9_Witness ==
    /\ child = "errorClosed"
    /\ exitCode = <<-2>>
    /\ engP.state = "rejected"

\* The last (at most StderrLimit) characters of everything received.
RecentSuffix(all, text) ==
    LET n == Len(all)
        m == IF n < StderrLimit THEN n ELSE StderrLimit
    IN  /\ Len(text) = m
        /\ \A j \in 1..m : text[j] = all[n - m + j]

\* C10: the retained stderr text is never longer than the limit and is the
\* most recent part of all chunks received; the error of a child that ran
\* and exited with a non-zero code carries that code and that text.
C10_StderrBounded ==
    /\ Len(stderr) <= StderrLimit
    /\ RecentSuffix(stderrAll, stderr)
    /\ (child = "closed" /\ exitCode # <<0>>) =>
          /\ engP.state = "rejected"
          /\ engP.reason.msg = "RMLMapper exited with code"
          /\ engP.reason.code = exitCode[1]
          /\ RecentSuffix(stderrAll, engP.reason.text)

\* Two chunks that together exceed the limit, then a non-zero exit.
C10_Witness ==
    /\ dataEvents = 2
    /\ Len(stderrAll) > StderrLimit
    /\ Len(stderr) = StderrLimit
    /\ child = "closed"
    /\ exitCode = <<1>>

\* The raw list holds nothing but commas and whitespace.
BlankList(env) == \A k \in 1..Len(env) : env[k] \in Whitespace \cup {","}

\* h, with whitespace around it or not, is one of the comma-separated
\* pieces of the raw list.
ExactEntry(env, h) ==
    \E i \in 1..(Len(env) + 1), j \in 0..Len(env) :
        /\ i <= j
        /\ (i = 1 \/ env[i - 1] = ",")
        /\ (j = Len(env) \/ env[j + 1] = ",")
        /\ \A k \in i..j : env[k] # ","
        /\ \E a \in i..j, b \in i..j :
              /\ SubSeq(env, a, b) = h
              /\ \A k \in (i..(a - 1)) \cup ((b + 1)..j) : env[k] \in Whitespace

\* C16: a reference that is an http(s) URL passes the host check (the
\* handler goes on to create the workspace) when the raw allow-list is empty
\* or all blank, and otherwise exactly when its host name (without the
\* port) equals one whole entry of the list; if not it is answered with 403.
\* A reference that is no http(s) URL is answered with 400 before the host
\* check, so the handler never exits by an exception of new URL.
C16_ExactHostMatch ==
    pc # "idle" =>
        LET u == req.resources[1].resourceUrl
            allowed == BlankList(allowedHosts) \/ ExactEntry(allowedHosts, u.hostname)
        IN  /\ pc # "rejected"
            /\ ~isHttpUrl(u) => (pc = "done" /\ responses[1].status = 400)
            /\ isHttpUrl(u) =>
                  /\ isAllowedHost(u, allowedHosts) = allowed
                  /\ allowed => (pc = "mkdtemp" /\ responses = <<>>)
                  /\ ~allowed => (pc = "done" /\ responses[1].status = 403)

\* The list has the entry g beside a blank one, the host is xg: refused.
C16_Witness ==
    /\ pc = "done"
    /\ Len(allowedHosts) = MaxEnvLen
    /\ AllowList(allowedHosts) = << <<"g">> >>
    /\ req.resources[1].resourceUrl.hostname = <<"x", "g">>
    /\ responses[1].status = 403

\* t is n without its leading and trailing whitespace.
IsTrimOf(n, t) ==
    /\ \E a \in 1..(Len(n) + 1), b \in 0..Len(n) :
          /\ t = SubSeq(n, a, b)
          /\ \A k \in (1..(a - 1)) \cup ((b + 1)..Len(n)) : n[k] \in Whitespace
    /\ t # <<>> => (t[1] \notin Whitespace /\ t[Len(t)] \notin Whitespace)

\* A non-empty name of characters of [A-Za-z0-9._-] with no "..": one path
\* segment, so that path.join(workdir, name) is a direct child of the
\* workspace, or the workspace itself for ".".
SafeName(t) ==
    /\ t # <<>>
    /\ \A k \in 1..Len(t) : t[k] \notin {"/", "\\"}
    /\ \A k \in 1..(Len(t) - 1) : ~(t[k] = "." /\ t[k + 1] = ".")
    /\ \A k \in 1..Len(t) : t[k] \in NameChars

\* C15: for every candidate the validated list holds the fallback or the
\* trimmed candidate, and the trimmed candidate exactly when that is
\* non-empty, has no "/", "\" or "..", and is made of [A-Za-z0-9._-]; so a
\* candidate with "/", "\" or ".." gives the fallback. Every name the Job
\* writes to is one path segment, and every file it has written is a direct
\* child of the workspace (a write to "." fails with EISDIR).
C15_SanitizeTotalAndSafe ==
    pc \notin {"idle"} =>
        LET n == req.resources[1].fileName
        IN  /\ pc # "rejected" => Len(normalized) = 1
            /\ \A i \in 1..Len(normalized) :
                  LET out == normalized[i].fileName
                  IN  /\ out = sanitizeFilename(n, DataJson)
                      /\ out = DataJson \/ IsTrimOf(n, out)
                      /\ \A t \in {n} \cup {SubSeq(n, a, b) : a, b \in 1..Len(n)} :
                            IsTrimOf(n, t) => (out = t <=> (SafeName(t) \/ t = DataJson))
                      /\ (\E k \in 1..Len(n) : n[k] \in {"/", "\\"}) => out = DataJson
                      /\ (\E k \in 1..(Len(n) - 1) : n[k] = "." /\ n[k + 1] = ".")
                            => out = DataJson
                      /\ SafeName(out)
            /\ \A f \in wsFiles :
                  f.content.kind = "json" => (SafeName(f.name) /\ f.name # <<".">>)

\* A candidate with whitespace around a valid name: the file is written
\* under the trimmed name.
C15_Witness ==
    /\ pc = "fetchAll"
    /\ req.resources[1].fileName = <<" ", "a", " ">>
    /\ [name |-> <<"a">>, content |-> Content("json", 1)] \in wsFiles

\* The media type and the file extension of each recognized serialization;
\* those of nquads for every other value.
CanonicalType(s) ==
    CASE s = "turtle" -> "text/turtle"
      [] s = "trig" -> "application/trig"
      [] s = "jsonld" -> "application/ld+json"
      [] OTHER -> "application/n-quads"

CanonicalExt(s) ==
    CASE s = "turtle" -> <<"t", "t", "l">>
      [] s = "trig" -> <<"t", "r", "i", "g">>
      [] s = "jsonld" -> <<"j", "s", "o", "n", "l", "d">>
      [] OTHER -> <<"n", "q">>

\* C14: whatever the serialization s of a request that is valid otherwise,
\* the request is not rejected for it; the output file the engine is given
\* is output.<canonical extension of s>; the engine gets "-s s" exactly when
\* s is not empty; the success response has the canonical media type of s
\* with "; charset=utf-8".
C14_FormatNegotiation ==
    pc # "idle" =>
        LET s == req.serialization
        IN  /\ \A k \in 1..Len(responses) : responses[k].status \notin {400, 403}
            /\ spawnCount > 0 =>
                  /\ engArgs.o = OutputStem \o CanonicalExt(s)
                  /\ engArgs.s = (IF s = "" THEN <<>> ELSE <<s>>)
            /\ SuccessSent =>
                  responses[1].ctype = <<CanonicalType(s), "; charset=utf-8">>

\* Fetch i completes its write in this step.
WriteCompletes(i) == fstate[i] = "opened" /\ fstate'[i] = "fulfilled"

\* C12: a list with equal sanitized file names passes validation; while the
\* fetch phase lasts, the step in which a fetch completes its write leaves
\* that fetch's payload under its name, whatever the fetch's place in the
\* list, and the step that starts conversion changes no file. When all
\* fetches are fulfilled, Promise.all is fulfilled, no response has been
\* sent, and each name holds the payload of one of the fetches of that name.
C12_LastWriteWins ==
    /\ [][pc = "fetchAll" =>
            /\ \A i \in DOMAIN fstate : WriteCompletes(i) =>
                  [name |-> normalized[i].fileName, content |-> Content("json", i)]
                      \in wsFiles'
            /\ pc' # "fetchAll" => wsFiles' = wsFiles]_vars
    /\ []((pc = "fetchAll" /\ fstate # <<>>
              /\ \A i \in DOMAIN fstate : fstate[i] = "fulfilled")
            => (allP.state = "fulfilled" /\ responses = <<>>
                /\ \A i \in DOMAIN fstate :
                      \E f \in wsFiles :
                          /\ f.name = normalized[i].fileName
                          /\ f.content.kind = "json"
                          /\ normalized[f.content.src].fileName = f.name))

\* C17: as long as the child is spawned or running the handler is at its
\* await of runRmlMapper: no response has been sent, fs.rm has not been
\* called and the workspace exists; and no step taken while the child is
\* alive (however many stderr chunks it sends) sends a response, calls fs.rm
\* or moves the handler on.
C17_BlockedWhileEngineRuns ==
    /\ [](EngineInProgress =>
              (pc = "engine" /\ responses = <<>> /\ rmCalls = 0 /\ rmResult = "none"
               /\ wsCreated /\ wsExists))
    /\ [][EngineInProgress =>
              (pc' = "engine" /\ responses' = <<>> /\ rmCalls' = 0 /\ wsExists')]_vars

\* The child is running and has sent all the chunks the bound allows.
C17_Witness ==
    /\ child = "running"
    /\ dataEvents = MaxData
    /\ pc = "engine"

\* The one response is the failure response of catch for a failed read of
\* the output file.
ReadFailureSent ==
    /\ Len(responses) = 1
    /\ responses[1].status = 422
    /\ responses[1].error = "Mapping failed"
    /\ responses[1].err.msg \in {"ENOENT", "EIO"}

\* C18: a 200 response is sent only by the step that read the output path
\* given to the engine, with what that file held as body, and only when every
\* fetch of the Job is fulfilled, convert returned a string or an array with
\* no error entry in its log, and the child was closed with code 0. When the
\* read fails after a close with code 0, the one response is the "Mapping
\* failed" response, fs.rm is called, and the handler exits after it.
C18_SuccessOnlyAfterAllPhases ==
    /\ [](SuccessSent =>
              /\ Len(responses) = 1
              /\ fstate # <<>>
              /\ \A i \in DOMAIN fstate : fstate[i] = "fulfilled"
              /\ converted.shape \in {"string", "array"}
              /\ \A k \in 1..Len(converted.log) : converted.log[k] # "error"
              /\ child = "closed" /\ exitCode = <<0>>)
    /\ [][(~SuccessSent /\ SuccessSent') =>
              /\ pc = "readOutput"
              /\ \E f \in wsFiles : f.name = engArgs.o /\ responses'[1].body = f.content]_vars
    /\ [][(pc = "readOutput" /\ pc' # "readOutput"
            /\ ~(wsExists /\ engArgs.o \in FileNames(wsFiles))) =>
              (ReadFailureSent' /\ rmCalls' = 1)]_vars
    /\ []((exitCode = <<0>> /\ pc \notin {"engine", "readOutput"}) =>
              /\ SuccessSent \/ ReadFailureSent
              /\ rmCalls = 1
              /\ Exited => RmFinished)

\* The child exited with code 0 without writing its output; the handler has
\* answered with the failure and removed the workspace.
C18_Witness ==
    /\ pc = "done"
    /\ exitCode = <<0>>
    /\ ReadFailureSent
    /\ responses[1].err.msg = "ENOENT"
    /\ rmResult = "ok"
    /\ ~wsExists

\* C19: from the spawn of the child until the handler leaves its try block,
\* the file mapping.ttl holds the text conversion produced, the output path
\* given to the engine is the path the handler reads, and no fetch is in
\* progress (so none can write any more), also when a resource of the Job
\* is named mapping.ttl or like the output file; no step taken while the
\* child is alive changes a file of the workspace.
C19_MappingDocumentIntact ==
    /\ [](pc \in {"engine", "readOutput"} =>
              /\ spawnCount = 1
              /\ rmlTurtle.kind \in {"rml", "rml-from-quads"}
              /\ [name |-> MappingTtl, content |-> rmlTurtle] \in wsFiles
              /\ engArgs.m = MappingTtl
              /\ engArgs.o = outputName(req.serialization)
              /\ ~FetchInProgress
              /\ \A i \in DOMAIN fstate : fstate[i] = "fulfilled")
    /\ [](pc \in {"quadsToTurtle", "writeMapping"} => ~FetchInProgress)
    /\ [][(EngineInProgress /\ EngineInProgress') => wsFiles' = wsFiles]_vars
    /\ [][(~SuccessSent /\ SuccessSent') =>
              (\E f \in wsFiles : f.name = outputName(req.serialization)
                                   /\ f.name = engArgs.o)]_vars

\* A resource was written to mapping.ttl and another to output.nq; the
\* child is running on the mapping document conversion produced.
C19_Witness ==
    /\ child = "running"
    /\ Len(normalized) = 2
    /\ normalized[1].fileName = MappingTtl
    /\ normalized[2].fileName = OutputNq
    /\ [name |-> MappingTtl, content |-> rmlTurtle] \in wsFiles
    /\ [name |-> OutputNq, content |-> Content("json", 2)] \in wsFiles

FetchSettled(i) == fstate[i] \in {"fulfilled", "rejected"}

\* C11: every fetch has a timer of its own. A fetch that is settled
\* (fulfilled: its file was written; rejected: with the error it failed
\* with) stays as it is, and its timer is inactive. A timer that goes off
\* while the response or its body is awaited rejects that fetch, and the
\* step in which a fetch is aborted changes no other fetch and no other
\* timer. Every fetch is settled eventually, whatever the remote endpoint
\* does, and the handler leaves the fetch phase eventually.
C11_EveryFetchTerminates ==
    /\ [](Len(ftimer) = Len(fstate) /\ Len(ferr) = Len(fstate))
    /\ [](\A i \in DOMAIN fstate :
              /\ FetchSettled(i) => ftimer[i] = "inactive"
              /\ fstate[i] = "fulfilled" => ferr[i] = NoErr
              /\ fstate[i] = "rejected" => ferr[i] # NoErr)
    /\ [][\A i \in DOMAIN fstate :
              /\ FetchSettled(i) => (fstate'[i] = fstate[i] /\ ferr'[i] = ferr[i])
              /\ (fstate[i] \in {"fetching", "body"} /\ ftimer[i] = "armed"
                  /\ ftimer'[i] = "inactive") => fstate'[i] = "rejected"
              /\ (~FetchSettled(i) /\ ferr'[i].msg = "AbortError") =>
                    \A j \in DOMAIN fstate \ {i} :
                        fstate'[j] = fstate[j] /\ ftimer'[j] = ftimer[j]]_vars
    /\ \A i \in 1..MaxResources :
          [](i \in DOMAIN fstate => <>(i \in DOMAIN fstate /\ FetchSettled(i)))
    /\ [](pc = "fetchAll" => <>(pc # "fetchAll"))

\* The first fetch was aborted by its timer; the second wrote its file
\* afterwards.
C11_Witness ==
    /\ Len(fstate) = 2
    /\ ferr[1].msg = "AbortError"
    /\ failOrder = <<1>>
    /\ fstate[2] = "fulfilled"
    /\ ftimer = <<"inactive", "inactive">>

\* C13: Jobs handled at the same time, identical input included, have
\* workspaces with distinct paths; every file of a Job's workspace was
\* written by that Job's own calls; its engine runs in its own workspace and
\* finds only its own files there; the output it sends is its own; and a
\* step of one Job, its failure and teardown included, changes nothing
\* under another Job's workspace and nothing of another Job's progress.
Started(j) == jobs[j].workdir # NoDir

JobStep(j) == jobs'[j] # jobs[j]

Touched ==
    {f.dir : f \in (tmpFiles \ tmpFiles') \cup (tmpFiles' \ tmpFiles)}
        \cup (tmpDirs \ tmpDirs') \cup (tmpDirs' \ tmpDirs)

====
